---- MODULE Spec2Model ----
(***************************************************************************)
(* Wplace telemetry server: heartbeat ingestion (rate limiter, validation, *)
(* write queue, queue consumer) and the rollup jobs: the hourly job that    *)
(* aggregates and sweeps the heartbeats table, the daily job over the      *)
(* hourly totals and the weekly job over the daily totals. A process       *)
(* restart, the death of the process in a job and the earlier scheduler    *)
(* that chains timers are modelled beside them.                            *)
(*                                                                         *)
(* Node.js runs every callback (request handler, setInterval tick, cron    *)
(* job) to completion on one thread, and better-sqlite3 statements are     *)
(* synchronous: each callback is one atomic action.                        *)
(*                                                                         *)
(* Time is Date.now(), counted in ticks of 30/HalfHour minutes.            *)
(* A JS string is a sequence of one-character strings.                     *)
(***************************************************************************)
EXTENDS Integers, Sequences, FiniteSets, TLC

\* ------------------------------------------------------------------ bounds
HalfHour == 1
MaxTime == 3
MaxLate == 1
MaxEnq == 2
MaxDays == 35     \* days the daily and weekly jobs are followed for
MaxUpTime == 4    \* ticks a server that restarts is followed for
MaxDaily == 1     \* rows the daily job writes when it is run at any time
MaxSent == 1      \* tasks pushed beside the jobs run at any time
MaxEarly == 1     \* ticks a timer callback may run before its target
MaxWeekly == 1    \* rows the weekly job writes when it is run at any time

\* ------------------------------------------------------- program constants
inputCharLimit == 100
DbCheckLimit == 100
intervalDelivery == 30
RateMax == 3
RateBan == 3
HourlyMaxRows == 24
DailyMaxRows == 7
WeeklyMaxRows == 4
HourMs == 2 * HalfHour
DayMs == 24 * HourMs
WeekMs == 7 * DayMs
timeWindow == (intervalDelivery * HalfHour) \div 30

VARIABLES
  now,            \* Date.now()
  rateStore,      \* @fastify/rate-limit local store: key -> counter entry
  writeQueue,     \* writeQueue: entries [id, task] waiting for the consumer;
                  \* id numbers the pushes and is read by no operation
  isWriting,      \* isWriting flag of processQueue
  heartbeats,     \* table heartbeats: set of rows, primary key uuid
  totalsHourly,   \* table totalsHourly: set of rows, primary key hourStart
  nextHourly,     \* next top of the hour at which cron '0 * * * *' fires
  drainOnPush,    \* the deployed handler calls processQueue() after its push
  lastEvent,      \* the callback that ran last, the reply it sent, the limiter key,
                  \* the key's count before the request and the body the handler
                  \* read (the limiter rejects a request before its body is read)
  nextId,         \* history: the number of tasks pushed so far
  lastAck,        \* history: per uuid, the last task pushed for it and its id
  failed,         \* history: ids of the tasks whose write threw
  lastApplied,    \* history: id of the task statement.run was last called on
  sweptSince,     \* history: uuids whose row a sweep deleted since their last write
  windows,        \* history: the windows <<startTime, endTime>> of completed hourly runs
  totalsDaily,    \* table totalsDaily: set of rows, primary key dayStart
  totalsWeekly,   \* table totalsWeekly: set of rows, primary key weekStart
  nextDaily,      \* next midnight at which cron '0 0 * * *' fires
  nextWeekly      \* next Sunday midnight at which cron '0 0 * * 0' fires

vars == <<now, rateStore, writeQueue, isWriting, heartbeats, totalsHourly, nextHourly,
          drainOnPush, lastEvent, nextId, lastAck, failed, lastApplied, sweptSince,
          windows, totalsDaily, totalsWeekly, nextDaily, nextWeekly>>

\* The coarser rollup tables and the schedule of their jobs
coarse == <<totalsDaily, totalsWeekly, nextDaily, nextWeekly>>

\* ------------------------------------------------------------- JS values
Undefined == [t |-> "undefined", s |-> <<>>, n |-> 0]
Null == [t |-> "null", s |-> <<>>, n |-> 0]
Str(chars) == [t |-> "string", s |-> chars, n |-> 0]
Num(k) == [t |-> "number", s |-> <<>>, n |-> k]
Bool(b) == [t |-> "boolean", s |-> <<>>, n |-> IF b THEN 1 ELSE 0]
\* An array or an object ("object" is the typeof of both)
Obj == [t |-> "object", s |-> <<>>, n |-> 0]

\* JS truthiness of a body field
Truthy(v) ==
  \/ v.t = "string" /\ v.s # <<>>
  \/ v.t = "number" /\ v.n # 0
  \/ v.t = "boolean" /\ v.n # 0
  \/ v.t = "object"

\* v.length > limit; reading .length of undefined or null throws a TypeError
LengthThrows(v) == v.t \in {"undefined", "null"}
\* A length check that is one off, for comparison
TooLongByTwo(v, limit) == v.t = "string" /\ Len(v.s) > limit + 1

TooLong(v, limit) == v.t = "string" /\ Len(v.s) > limit

\* validator.escape: & < > " ' / \ are replaced by HTML entities (so is the
\* grave accent, a character the strings here do not hold)
EscapeChar(c) ==
  CASE c = "&" -> <<"&", "a", "m", "p", ";">>
    [] c = "<" -> <<"&", "l", "t", ";">>
    [] c = ">" -> <<"&", "g", "t", ";">>
    [] c = "\"" -> <<"&", "q", "u", "o", "t", ";">>
    [] c = "'" -> <<"&", "#", "x", "2", "7", ";">>
    [] c = "/" -> <<"&", "#", "x", "2", "F", ";">>
    [] c = "\\" -> <<"&", "#", "x", "5", "C", ";">>
    [] OTHER -> <<c>>

RECURSIVE Escape(_)
Escape(chars) ==
  IF chars = <<>> THEN <<>>
  ELSE IF Len(chars) = 1 THEN EscapeChar(chars[1])
  ELSE LET half == Len(chars) \div 2
       IN Escape(SubSeq(chars, 1, half)) \o Escape(SubSeq(chars, half + 1, Len(chars)))

\* version ? validator.escape(version) : null
SafeOpt(v) == IF Truthy(v) THEN Str(Escape(v.s)) ELSE Null

\* crypto.createHash('sha512').update(salt + safeId).digest(): a digest, kept
\* as the tagged input (distinct inputs give distinct digests)
Sha512(chars) == <<"sha512">> \o chars

\* --------------------------------------------------------------- requests
\* A request: the proxy headers and transport address the rate-limit key is
\* taken from ("" = header absent), and the JSON body's four fields.
Src(realIp, clientIp, forwardedFor, ip) ==
  [xRealIp |-> realIp, xClientIp |-> clientIp, xForwardedFor |-> forwardedFor, ip |-> ip]

SrcProxy == Src("10.0.0.1", "", "", "172.16.0.1")
SrcDirect == Src("", "", "", "192.168.0.9")

Body(uuid, version, browser, os) ==
  [uuid |-> uuid, version |-> version, browser |-> browser, os |-> os]

BodyA1 == Body(Str(<<"a">>), Str(<<"1">>), Str(<<"C">>), Str(<<"W">>))
BodyA2 == Body(Str(<<"a">>), Str(<<"<", "2">>), Str(<<>>), Str(<<"L">>))
BodyB == Body(Str(<<"b">>), Str(<<"1">>), Str(<<"C">>), Str(<<"W">>))
BodyNoUuid == Body(Undefined, Str(<<"1">>), Str(<<"C">>), Str(<<"W">>))
BodyNoVersion == Body(Str(<<"a">>), Undefined, Str(<<"C">>), Str(<<"W">>))

\* The string of n characters c
Rep(c, n) == [i \in 1..n |-> c]

\* The values a body field is sent with: a string (short, empty, of the limit's
\* length, one longer), absent, null, numbers, booleans, an array or object
FieldValues(short) ==
  {Str(<<short>>), Str(<<>>), Str(Rep(short, inputCharLimit + 1)),
   Undefined, Null, Num(7), Num(0), Bool(TRUE), Bool(FALSE), Obj}

\* Bodies with each of these values as uuid, with every subset of the optional
\* fields absent, and with each of these values in one optional field
BodiesChecked ==
  {Body(u, Str(<<"1">>), Str(<<"C">>), Str(<<"W">>)) :
     u \in FieldValues("a") \cup {Str(Rep("a", inputCharLimit))}}
  \cup {Body(Str(<<"a">>), v, b, o) :
          v \in {Undefined, Str(<<"1">>)}, b \in {Undefined, Str(<<"C">>)},
          o \in {Undefined, Str(<<"W">>)}}
  \cup {Body(Str(<<"a">>), v, Str(<<"C">>), Str(<<"W">>)) : v \in FieldValues("1")}
  \cup {Body(Str(<<"a">>), Str(<<"1">>), b, Str(<<"W">>)) : b \in FieldValues("C")}
  \cup {Body(Str(<<"a">>), Str(<<"1">>), Str(<<"C">>), o) : o \in FieldValues("W")}

\* No request: the body slot of a callback that is not a request
BodyNone == Body(Undefined, Undefined, Undefined, Undefined)

Sources == {SrcProxy}
Bodies == {BodyA1, BodyA2, BodyB, BodyNoUuid, BodyNoVersion}

\* A limiter keyed by the transport address, for comparison
keyGeneratorByAddress(src) == src.ip

\* keyGenerator of the rate limiter: the first truthy of the three headers, else request.ip
keyGenerator(src) ==
  IF src.xRealIp # "" THEN src.xRealIp
  ELSE IF src.xClientIp # "" THEN src.xClientIp
  ELSE IF src.xForwardedFor # "" THEN src.xForwardedFor
  ELSE src.ip

Keys == {keyGenerator(SrcProxy), keyGenerator(SrcDirect)}

\* ----------------------------------------------------------- rate limiter
\* The limiter's local store counts the requests of a key in a window that
\* starts at the key's first request and is timeWindow long; current = 0
\* stands for a key the store does not hold.
NoEntry == [current |-> 0, iterationStartMs |-> 0]

\* A store that keeps the entry of a banned key for good, for comparison
ExpiredUnlessBanned(entry, t) ==
  \/ entry.current = 0
  \/ entry.current - RateMax <= RateBan /\ entry.iterationStartMs + timeWindow <= t

Expired(entry, t) == entry.current = 0 \/ entry.iterationStartMs + timeWindow <= t

\* A counter that is never reset, for comparison
RateIncrNoReset(entry, t) ==
  [current |-> entry.current + 1,
   iterationStartMs |-> IF entry.current = 0 THEN t ELSE entry.iterationStartMs]

RateIncr(entry, t) ==
  IF Expired(entry, t)
  THEN [current |-> 1, iterationStartMs |-> t]
  ELSE [current |-> entry.current + 1, iterationStartMs |-> entry.iterationStartMs]

\* A ceiling that already stops the request that reaches it, for comparison
RateVerdictBelowMax(current, ban) ==
  IF current < RateMax THEN "pass"
  ELSE IF current - RateMax > ban THEN "403"
  ELSE "429"

\* A limiter that bans at the first request over the ceiling, for comparison
RateVerdictBanAtOnce(current, ban) ==
  IF current <= RateMax THEN "pass" ELSE "403"

\* The onRequest hook's verdict for the counter value: pass, 429, or 403
\* once more than `ban` requests came in over the ceiling.
RateVerdict(current, ban) ==
  IF current <= RateMax THEN "pass"
  ELSE IF current - RateMax > ban THEN "403"
  ELSE "429"

\* ------------------------------------------------------ POST /heartbeat
Reply(status) == [status |-> status, push |-> FALSE, task |-> <<>>]

\* The validation of one optional field: "" when it passes
OptCheck(v) ==
  IF Truthy(v) /\ v.t # "string" THEN "400"
  ELSE IF LengthThrows(v) THEN "500"
  ELSE IF TooLong(v, inputCharLimit) THEN "400"
  ELSE ""

\* The route handler: the reply and the task it pushes. The handler that
\* drains on push keys the task by the salted hash of the id.
HandleHeartbeat(body, t, hashed) ==
  IF ~Truthy(body.uuid) \/ body.uuid.t # "string" THEN Reply("400")
  ELSE IF TooLong(body.uuid, inputCharLimit) THEN Reply("400")
  ELSE IF OptCheck(body.version) # "" THEN Reply(OptCheck(body.version))
  ELSE IF OptCheck(body.browser) # "" THEN Reply(OptCheck(body.browser))
  ELSE IF OptCheck(body.os) # "" THEN Reply(OptCheck(body.os))
  ELSE [status |-> "ok", push |-> TRUE,
        task |-> [uuid |-> IF hashed THEN Sha512(Escape(body.uuid.s)) ELSE Escape(body.uuid.s),
                  version |-> SafeOpt(body.version),
                  browser |-> SafeOpt(body.browser),
                  os |-> SafeOpt(body.os),
                  lastSeen |-> t]]

\* A limiter that sets the reply's status but lets the handler run, for comparison
DispatchUngated(verdict, body, t, hashed) ==
  IF verdict = "pass" THEN HandleHeartbeat(body, t, hashed)
  ELSE [HandleHeartbeat(body, t, hashed) EXCEPT !.status = verdict]

\* The hook throws on a 429 or 403 verdict, and the handler runs only when it
\* passes. The status is the limiter's; the onSend hook's log line is left out.
Dispatch(verdict, body, t, hashed) ==
  IF verdict = "pass" THEN HandleHeartbeat(body, t, hashed) ELSE Reply(verdict)

\* writeQueue.unshift(task), for comparison
PushFront(queue, entry) == <<entry>> \o queue

\* writeQueue.push(task)
PushTask(queue, entry) == Append(queue, entry)

\* ------------------------------------------------------- queue consumer
\* Table heartbeats: CHECK (length(col) <= 100) on uuid, version, browser, os;
\* a NULL column passes its CHECK.
ColumnOk(v) == v.t = "null" \/ Len(v.s) <= DbCheckLimit
CheckOk(task) ==
  /\ Len(task.uuid) <= DbCheckLimit
  /\ ColumnOk(task.version) /\ ColumnOk(task.browser) /\ ColumnOk(task.os)

\* INSERT OR IGNORE, for comparison
InsertOrIgnore(table, task) ==
  IF \E r \in table : r.uuid = task.uuid THEN table ELSE table \cup {task}

\* INSERT into a table without a key, for comparison
InsertUnkeyed(table, task) == table \cup {task}

\* INSERT ... ON CONFLICT(uuid) DO UPDATE SET version, browser, os, lastSeen
Upsert(table, task) == {r \in table : r.uuid # task.uuid} \cup {task}

\* statement.run(task): throws on a violated CHECK or when the storage fails
StatementRun(table, task, fault) ==
  IF fault \/ ~CheckOk(task)
  THEN [ok |-> FALSE, table |-> table]
  ELSE [ok |-> TRUE, table |-> Upsert(table, task)]

\* writeQueue.pop(), for comparison
PopIndex(queue) == Len(queue)

\* writeQueue.shift(): the index of the entry taken
ShiftIndex(queue) == 1

RemoveAt(queue, i) == SubSeq(queue, 1, i - 1) \o SubSeq(queue, i + 1, Len(queue))

\* A catch block that pushes the task back, for comparison
Requeue(queue, entry) == Append(queue, entry)

\* catch (exception): the error is logged, the queue is left as the shift left it
OnWriteError(queue, entry) == queue

\* A flag reset only inside the try block, for comparison
ResetInTry(ok) == ~ok

\* isWriting = false at the end of processQueue
DoneWriting(ok) == FALSE

\* One call of processQueue on the queue and table given: what it leaves
Idle(queue, table, writing) ==
  [queue |-> queue, table |-> table, writing |-> writing, status |-> "idle",
   id |-> 0, uuid |-> <<>>]

processQueue(queue, table, writing, fault) ==
  IF writing \/ Len(queue) = 0
  THEN Idle(queue, table, writing)
  ELSE LET i == ShiftIndex(queue)
           entry == queue[i]
           run == StatementRun(table, entry.task, fault)
       IN [queue |-> IF run.ok THEN RemoveAt(queue, i)
                     ELSE OnWriteError(RemoveAt(queue, i), entry),
           table |-> run.table,
           writing |-> DoneWriting(run.ok),
           status |-> IF run.ok THEN "ok" ELSE "error",
           id |-> entry.id,
           uuid |-> entry.task.uuid]

\* The state a processQueue call leaves, and the history it adds
Consumed(r) ==
  /\ writeQueue' = r.queue
  /\ heartbeats' = r.table
  /\ isWriting' = r.writing
  /\ lastApplied' = IF r.status = "idle" THEN lastApplied ELSE r.id
  /\ failed' = IF r.status = "error" THEN failed \cup {r.id} ELSE failed
  /\ sweptSince' = IF r.status = "ok" THEN sweptSince \ {r.uuid} ELSE sweptSince

\* One setInterval tick of processQueue
ProcessQueue ==
  \E fault \in BOOLEAN :
    LET r == processQueue(writeQueue, heartbeats, isWriting, fault)
    IN /\ Consumed(r)
       /\ lastEvent' = [op |-> "processQueue", status |-> r.status, key |-> "", prior |-> 0,
                   body |-> BodyNone]
       /\ UNCHANGED <<now, rateStore, totalsHourly, nextHourly, drainOnPush, nextId, lastAck, coarse,
                       windows>>

\* A request: the rate limiter's onRequest hook, then the route handler
Heartbeat(src, body) ==
  \E fault \in IF drainOnPush THEN BOOLEAN ELSE {FALSE} :
    LET key == keyGenerator(src)
        entry == RateIncr(rateStore[key], now)
        ban == IF drainOnPush THEN intervalDelivery - 1 ELSE RateBan
        res == Dispatch(RateVerdict(entry.current, ban), body, now, drainOnPush)
        pushed == IF res.push
                  THEN PushTask(writeQueue, [id |-> nextId + 1, task |-> res.task])
                  ELSE writeQueue
        r == IF res.push /\ drainOnPush
             THEN processQueue(pushed, heartbeats, isWriting, fault)
             ELSE Idle(pushed, heartbeats, isWriting)
    IN /\ rateStore' = [rateStore EXCEPT ![key] = entry]
       /\ nextId' = IF res.push THEN nextId + 1 ELSE nextId
       /\ lastAck' = IF res.push
                     THEN [lastAck EXCEPT ![res.task.uuid] = [id |-> nextId + 1, task |-> res.task]]
                     ELSE lastAck
       /\ Consumed(r)
       /\ lastEvent' = [op |-> "heartbeat", status |-> res.status, key |-> key,
                        prior |-> rateStore[key].current,
                        body |-> IF res.status \in {"429", "403"} THEN BodyNone ELSE body]
       /\ UNCHANGED <<now, totalsHourly, nextHourly, drainOnPush, windows, coarse>>

\* ---------------------------------------------------------- aggregation
\* WHERE lastSeen >= ? AND lastSeen <= ?, for comparison
InWindowClosed(r, startTime, endTime) == r.lastSeen >= startTime /\ r.lastSeen <= endTime

\* WHERE lastSeen >= ? AND lastSeen < ?
InWindow(r, startTime, endTime) == r.lastSeen >= startTime /\ r.lastSeen < endTime
SelectWindow(source, startTime, endTime) == {r \in source : InWindow(r, startTime, endTime)}

\* The orders in which the SELECT may return the rows of the heartbeats table
\* (SQL fixes none; a scan of the table and a scan of its lastSeen index differ)
RECURSIVE Orderings(_)
Orderings(rows) ==
  IF rows = {} THEN {<<>>}
  ELSE UNION {{<<r>> \o rest : rest \in Orderings(rows \ {r})} : r \in rows}

\* The order in which the SELECT returns the rows of a totals table: by the
\* integer primary key on a table scan and by lastSeen on a scan of its index,
\* and the two agree, lastSeen being the end of the window that starts at the key
RECURSIVE ByStart(_)
ByStart(rows) ==
  IF rows = {} THEN <<>>
  ELSE LET last == CHOOSE r \in rows : \A q \in rows : q.start <= r.start
       IN Append(ByStart(rows \ {last}), last)

\* The property order of a JS object: keys that are array indices (canonical
\* decimal numbers below 2^32 - 1) come first, by value; the other keys follow
\* in the order they were added
DecimalDigits == <<"0", "1", "2", "3", "4", "5", "6", "7", "8", "9">>
DigitValue(c) == (CHOOSE i \in DOMAIN DecimalDigits : DecimalDigits[i] = c) - 1

\* a < b for canonical decimal numbers a, b (no leading zero)
DecimalLess(a, b) ==
  \/ Len(a) < Len(b)
  \/ /\ Len(a) = Len(b)
     /\ \E i \in DOMAIN a :
          /\ DigitValue(a[i]) < DigitValue(b[i])
          /\ \A j \in 1..(i - 1) : a[j] = b[j]

\* 2^32 - 1
IndexLimit == <<"4", "2", "9", "4", "9", "6", "7", "2", "9", "5">>

IsIndex(key) ==
  /\ key # <<>>
  /\ \A i \in DOMAIN key : \E d \in DOMAIN DecimalDigits : DecimalDigits[d] = key[i]
  /\ Len(key) = 1 \/ key[1] # "0"
  /\ DecimalLess(key, IndexLimit)

\* The place a new key takes among the properties
KeyPlace(totals, key) ==
  IF IsIndex(key)
  THEN 1 + Cardinality({i \in DOMAIN totals :
                         IsIndex(totals[i][1]) /\ DecimalLess(totals[i][1], key)})
  ELSE Len(totals) + 1

\* totals[v] = (totals[v] || 0) + 2, for comparison
BumpByTwo(totals, key) ==
  IF \E i \in DOMAIN totals : totals[i][1] = key
  THEN [i \in DOMAIN totals |->
          IF totals[i][1] = key THEN <<key, totals[i][2] + 2>> ELSE totals[i]]
  ELSE SubSeq(totals, 1, KeyPlace(totals, key) - 1) \o << <<key, 2>> >>
       \o SubSeq(totals, KeyPlace(totals, key), Len(totals))

\* totals[v] = (totals[v] || 0) + 1 on an object kept as <<key, count>> pairs in
\* property order
Bump(totals, key) ==
  IF \E i \in DOMAIN totals : totals[i][1] = key
  THEN [i \in DOMAIN totals |->
          IF totals[i][1] = key THEN <<key, totals[i][2] + 1>> ELSE totals[i]]
  ELSE SubSeq(totals, 1, KeyPlace(totals, key) - 1) \o << <<key, 1>> >>
       \o SubSeq(totals, KeyPlace(totals, key), Len(totals))

\* The counting loop over one column: a row whose value is falsy adds nothing
RECURSIVE CountColumn(_, _)
CountColumn(rows, col) ==
  IF rows = <<>> THEN <<>>
  ELSE LET rest == CountColumn(SubSeq(rows, 1, Len(rows) - 1), col)
           v == rows[Len(rows)][col]
       IN IF Truthy(v) THEN Bump(rest, v.s) ELSE rest

RECURSIVE Digits(_)
Digits(k) ==
  LET d == DecimalDigits[(k % 10) + 1]
  IN IF k < 10 THEN <<d>> ELSE Append(Digits(k \div 10), d)

RECURSIVE JsonQuoted(_)
JsonQuoted(chars) ==
  IF chars = <<>> THEN <<>>
  ELSE IF Len(chars) = 1
       THEN (IF chars[1] \in {"\"", "\\"} THEN <<"\\", chars[1]>> ELSE <<chars[1]>>)
  ELSE LET half == Len(chars) \div 2
       IN JsonQuoted(SubSeq(chars, 1, half)) \o JsonQuoted(SubSeq(chars, half + 1, Len(chars)))

RECURSIVE JsonMembers(_)
JsonMembers(totals) ==
  IF totals = <<>> THEN <<>>
  ELSE (IF Len(totals) > 1 THEN JsonMembers(SubSeq(totals, 1, Len(totals) - 1)) \o <<",">> ELSE <<>>)
       \o <<"\"">> \o JsonQuoted(totals[Len(totals)][1]) \o <<"\"", ":">>
       \o Digits(totals[Len(totals)][2])

\* JSON.stringify of a totals object
JsonStringify(totals) == <<"{">> \o JsonMembers(totals) \o <<"}">>

\* A row whose onlineUsers adds up the users its source rows stand for (a
\* heartbeat row for one, a totals row for its onlineUsers), for comparison
RECURSIVE UsersOf(_)
UsersOf(rows) ==
  IF rows = <<>> THEN 0
  ELSE (IF "onlineUsers" \in DOMAIN Head(rows) THEN Head(rows).onlineUsers ELSE 1)
       + UsersOf(Tail(rows))

TotalsRowOfUsers(rows, startTime, endTime) ==
  [start |-> startTime,
   onlineUsers |-> UsersOf(rows),
   version |-> Str(JsonStringify(CountColumn(rows, "version"))),
   browser |-> Str(JsonStringify(CountColumn(rows, "browser"))),
   os |-> Str(JsonStringify(CountColumn(rows, "os"))),
   lastSeen |-> endTime]

\* A row keyed by the day its window starts in, for comparison
TotalsRowByDay(rows, startTime, endTime) ==
  [start |-> (startTime \div DayMs) * DayMs,
   onlineUsers |-> Len(rows),
   version |-> Str(JsonStringify(CountColumn(rows, "version"))),
   browser |-> Str(JsonStringify(CountColumn(rows, "browser"))),
   os |-> Str(JsonStringify(CountColumn(rows, "os"))),
   lastSeen |-> endTime]

\* The row an aggregation run writes for the rows it selected
TotalsRow(rows, startTime, endTime) ==
  [start |-> startTime,
   onlineUsers |-> Len(rows),
   version |-> Str(JsonStringify(CountColumn(rows, "version"))),
   browser |-> Str(JsonStringify(CountColumn(rows, "browser"))),
   os |-> Str(JsonStringify(CountColumn(rows, "os"))),
   lastSeen |-> endTime]

\* INSERT INTO target ... ON CONFLICT(start) DO UPDATE SET ...
UpsertTotals(target, row) == {r \in target : r.start # row.start} \cup {row}

\* ORDER BY start DESC in the rolling window's delete, for comparison
RollingWindowNewest(target, maxRows) ==
  IF maxRows > 0 /\ Cardinality(target) > maxRows
  THEN {r \in target :
          Cardinality({q \in target : q.start > r.start}) >= Cardinality(target) - maxRows}
  ELSE target

\* Rolling window: delete the count - maxRows oldest rows (maxRows = 0: no cap given)
RollingWindow(target, maxRows) ==
  IF maxRows > 0 /\ Cardinality(target) > maxRows
  THEN {r \in target :
          Cardinality({q \in target : q.start < r.start}) >= Cardinality(target) - maxRows}
  ELSE target

\* DELETE FROM source WHERE lastSeen < ?, for comparison
WipeUpTo(source, startTime, endTime) == {r \in source : r.lastSeen >= endTime}

\* DELETE FROM source WHERE lastSeen >= ? AND lastSeen < ?
WipeWindow(source, startTime, endTime) == {r \in source : ~InWindow(r, startTime, endTime)}

\* An aggregation that deletes the rows of the window from every source, for
\* comparison
aggregateTotalsWiping(source, target, rows, startTime, endTime, maxRows, wipeSource) ==
  [target |-> RollingWindow(UpsertTotals(target, TotalsRow(rows, startTime, endTime)), maxRows),
   source |-> WipeWindow(source, startTime, endTime)]

\* An aggregation that deletes the source rows first and then writes the totals
\* row, for comparison
aggregateTotalsSweepFirst(done, source, target, rows, startTime, endTime, maxRows, wipeSource) ==
  [target |-> IF done <= 1 THEN target
              ELSE IF done = 2 THEN UpsertTotals(target, TotalsRow(rows, startTime, endTime))
              ELSE RollingWindow(UpsertTotals(target, TotalsRow(rows, startTime, endTime)),
                                 maxRows),
   source |-> IF done >= 1 /\ wipeSource THEN WipeWindow(source, startTime, endTime)
              ELSE source]

\* aggregateTotals, for the order `rows` in which the SELECT returned the window's rows
aggregateTotals(source, target, rows, startTime, endTime, maxRows, wipeSource) ==
  [target |-> RollingWindow(UpsertTotals(target, TotalsRow(rows, startTime, endTime)), maxRows),
   source |-> IF wipeSource THEN WipeWindow(source, startTime, endTime) ELSE source]

\* The tables when aggregateTotals has run the first `done` of its three writing
\* statements, each committed on its own: the upsert of the totals row, the
\* delete of the rolling window, the delete of the source rows
aggregateTotalsUpTo(done, source, target, rows, startTime, endTime, maxRows, wipeSource) ==
  [target |-> IF done = 0 THEN target
              ELSE IF done = 1 THEN UpsertTotals(target, TotalsRow(rows, startTime, endTime))
              ELSE aggregateTotals(source, target, rows, startTime, endTime, maxRows,
                                   wipeSource).target,
   source |-> IF done = 3
              THEN aggregateTotals(source, target, rows, startTime, endTime, maxRows,
                                   wipeSource).source
              ELSE source]

\* ------------------------------------------------------------ hourly job
\* cron.schedule('0 * * * *'): the top of the hour that follows time t
NextHour(t) == ((t \div HourMs) + 1) * HourMs

\* Jobs that all read the hourly totals, for comparison
sourceTableHourlyTotals(job) == IF job = "hourly" THEN heartbeats ELSE totalsHourly

\* The table each job passes to aggregateTotals as sourceTable
sourceTable(job) ==
  CASE job = "hourly" -> heartbeats
    [] job = "daily" -> totalsHourly
    [] job = "weekly" -> totalsDaily

\* The callback of the hourly job: the window ends at the time it runs
HourlyCallback ==
  /\ LET endTime == now
         startTime == endTime - HourMs
     IN \E rows \in Orderings(SelectWindow(sourceTable("hourly"), startTime, endTime)) :
          LET run == aggregateTotals(sourceTable("hourly"), totalsHourly, rows, startTime,
                                     endTime, HourlyMaxRows, TRUE)
          IN /\ heartbeats' = run.source
             /\ totalsHourly' = run.target
             /\ sweptSince' = sweptSince \cup {r.uuid : r \in heartbeats \ run.source}
             /\ windows' = windows \cup {<<startTime, endTime>>}
  /\ lastEvent' = [op |-> "hourly", status |-> "ok", key |-> "", prior |-> 0,
                   body |-> BodyNone]
  /\ UNCHANGED <<now, rateStore, writeQueue, isWriting, drainOnPush, nextId, lastAck,
                 failed, lastApplied, totalsDaily, totalsWeekly>>

HourlyJob ==
  /\ now >= nextHourly
  /\ HourlyCallback
  /\ nextHourly' = NextHour(now)
  /\ UNCHANGED <<nextDaily, nextWeekly>>

\* ------------------------------------------------- daily and weekly jobs
\* cron.schedule('0 0 * * *'): the midnight that follows time t
NextDay(t) == ((t \div DayMs) + 1) * DayMs

\* cron.schedule('0 0 * * 0'): the Sunday midnight that follows time t, sunday
\* being one Sunday midnight
NextSunday(t, sunday) ==
  IF t < sunday THEN sunday ELSE sunday + (((t - sunday) \div WeekMs) + 1) * WeekMs

\* The callback of the daily job: it reads the hourly totals and keeps them
DailyCallback ==
  /\ LET endTime == now
         startTime == endTime - DayMs
         rows == ByStart(SelectWindow(sourceTable("daily"), startTime, endTime))
         run == aggregateTotals(sourceTable("daily"), totalsDaily, rows, startTime, endTime,
                                DailyMaxRows, FALSE)
     IN /\ totalsHourly' = run.source
        /\ totalsDaily' = run.target
  /\ lastEvent' = [op |-> "daily", status |-> "ok", key |-> "", prior |-> 0,
                   body |-> BodyNone]
  /\ UNCHANGED <<now, rateStore, writeQueue, isWriting, heartbeats, drainOnPush, nextId,
                 lastAck, failed, lastApplied, sweptSince, windows, totalsWeekly>>

DailyJob ==
  /\ now >= nextDaily
  /\ DailyCallback
  /\ nextDaily' = NextDay(now)
  /\ UNCHANGED <<nextHourly, nextWeekly>>

\* The callback of the weekly job: it reads the daily totals and keeps them
WeeklyCallback ==
  /\ LET endTime == now
         startTime == endTime - WeekMs
         rows == ByStart(SelectWindow(sourceTable("weekly"), startTime, endTime))
         run == aggregateTotals(sourceTable("weekly"), totalsWeekly, rows, startTime, endTime,
                                WeeklyMaxRows, FALSE)
     IN /\ totalsDaily' = run.source
        /\ totalsWeekly' = run.target
  /\ lastEvent' = [op |-> "weekly", status |-> "ok", key |-> "", prior |-> 0,
                   body |-> BodyNone]
  /\ UNCHANGED <<now, rateStore, writeQueue, isWriting, heartbeats, drainOnPush, nextId,
                 lastAck, failed, lastApplied, sweptSince, windows, totalsHourly>>

WeeklyJob ==
  /\ now >= nextWeekly
  /\ WeeklyCallback
  /\ nextWeekly' = NextSunday(now, nextWeekly)
  /\ UNCHANGED <<nextHourly, nextDaily>>

\* ----------------------------------------------------------------- clock
\* Time passes; a due cron firing runs at most MaxLate ticks after its boundary
Tick ==
  /\ now < MaxTime
  /\ now + 1 <= nextHourly + MaxLate
  /\ now' = now + 1
  /\ lastEvent' = [op |-> "tick", status |-> "ok", key |-> "", prior |-> 0,
                   body |-> BodyNone]
  /\ UNCHANGED <<rateStore, writeQueue, isWriting, heartbeats, totalsHourly, nextHourly,
                 drainOnPush, nextId, lastAck, failed, lastApplied, sweptSince, windows,
                 coarse>>

\* Time passes with every firing run at its boundary
OnTimeTick ==
  /\ now < MaxUpTime
  /\ now < nextHourly
  /\ now' = now + 1
  /\ lastEvent' = [op |-> "tick", status |-> "ok", key |-> "", prior |-> 0,
                   body |-> BodyNone]
  /\ UNCHANGED <<rateStore, writeQueue, isWriting, heartbeats, totalsHourly, nextHourly,
                 drainOnPush, nextId, lastAck, failed, lastApplied, sweptSince, windows,
                 coarse>>

\* ------------------------------------------- hourly job on a timer chain
\* The server that schedules its jobs with scheduleAtBoundary: scheduleNext sets
\* a timer for getNextTarget(), and the timer's callback runs the job and then
\* scheduleNext again. nextHourly is the target of the pending timer.
NoTimer == 0 - 1

\* An exception that leaves a timer callback is uncaught and ends the process:
\* the process runs as long as the timer chain is unbroken
Up == nextHourly # NoTimer

\* The callback of the hour timer. Its aggregateTotals has no rolling window
\* and always deletes the source rows; the statement after the first `done`
\* writing statements throws when the store fails (done = 3: none does)
HourlyTimer ==
  /\ Up
  /\ now >= nextHourly - MaxEarly
  /\ \E done \in {0, 1, 3} :
       LET endTime == now
           startTime == endTime - HourMs
       IN /\ \E rows \in Orderings(SelectWindow(heartbeats, startTime, endTime)) :
               LET run == aggregateTotalsUpTo(done, heartbeats, totalsHourly, rows,
                                              startTime, endTime, 0, TRUE)
               IN /\ heartbeats' = run.source
                  /\ totalsHourly' = run.target
                  /\ sweptSince' = sweptSince \cup {r.uuid : r \in heartbeats \ run.source}
          /\ windows' = IF done = 3 THEN windows \cup {<<startTime, endTime>>} ELSE windows
          /\ nextHourly' = IF done = 3 THEN NextHour(now) ELSE NoTimer
          /\ lastEvent' = [op |-> "hourly", status |-> IF done = 3 THEN "ok" ELSE "error",
                           key |-> "", prior |-> 0, body |-> BodyNone]
  /\ UNCHANGED <<now, rateStore, writeQueue, isWriting, drainOnPush, nextId, lastAck,
                 failed, lastApplied, totalsDaily, totalsWeekly, nextDaily, nextWeekly>>

\* Time passes; a timer callback runs at most MaxLate ticks after its target
TimerTick ==
  /\ now < MaxUpTime
  /\ Up => now + 1 <= nextHourly + MaxLate
  /\ now' = now + 1
  /\ lastEvent' = [op |-> "tick", status |-> "ok", key |-> "", prior |-> 0,
                   body |-> BodyNone]
  /\ UNCHANGED <<rateStore, writeQueue, isWriting, heartbeats, totalsHourly, nextHourly,
                 drainOnPush, nextId, lastAck, failed, lastApplied, sweptSince, windows,
                 coarse>>

\* ---------------------------------------------------------------- restart
\* The process stops and is started again: the limiter's store, the queue and
\* the timers live in memory and start afresh, every job waits for its next
\* boundary, and the schema set-up runs on the database file, which keeps the
\* heartbeats and the hourly totals and drops the tables of the coarser totals
Restart ==
  /\ rateStore' = [k \in Keys |-> NoEntry]
  /\ writeQueue' = <<>>
  /\ isWriting' = FALSE
  /\ totalsDaily' = {}
  /\ totalsWeekly' = {}
  /\ nextHourly' = NextHour(now)
  /\ nextDaily' = NextDay(now)
  /\ nextWeekly' = NextSunday(now, nextWeekly)
  /\ lastEvent' = [op |-> "restart", status |-> "ok", key |-> "", prior |-> 0,
                   body |-> BodyNone]
  /\ UNCHANGED <<now, heartbeats, totalsHourly, drainOnPush, nextId, lastAck, failed,
                 lastApplied, sweptSince, windows>>

\* The process dies in the callback of the hourly job, `done` of the writing
\* statements of aggregateTotals run, and is started again
HourlyCrash ==
  /\ now >= nextHourly
  /\ \E done \in 0..3 :
       LET endTime == now
           startTime == endTime - HourMs
       IN \E rows \in Orderings(SelectWindow(heartbeats, startTime, endTime)) :
            LET run == aggregateTotalsUpTo(done, heartbeats, totalsHourly, rows, startTime,
                                           endTime, HourlyMaxRows, TRUE)
            IN /\ heartbeats' = run.source
               /\ totalsHourly' = run.target
               /\ sweptSince' = sweptSince \cup {r.uuid : r \in heartbeats \ run.source}
               /\ windows' = IF done = 3 THEN windows \cup {<<startTime, endTime>>}
                             ELSE windows
  /\ rateStore' = [k \in Keys |-> NoEntry]
  /\ writeQueue' = <<>>
  /\ isWriting' = FALSE
  /\ totalsDaily' = {}
  /\ totalsWeekly' = {}
  /\ nextHourly' = NextHour(now)
  /\ nextDaily' = NextDay(now)
  /\ nextWeekly' = NextSunday(now, nextWeekly)
  /\ lastEvent' = [op |-> "crash", status |-> "ok", key |-> "", prior |-> 0,
                   body |-> BodyNone]
  /\ UNCHANGED <<now, drainOnPush, nextId, lastAck, failed, lastApplied>>

\* A day passes with every job run at its boundary: the clock reaches the next
\* midnight once no firing is due
DayPasses ==
  /\ now < MaxDays * DayMs
  /\ now < nextDaily
  /\ now < nextWeekly
  /\ now' = NextDay(now)
  /\ lastEvent' = [op |-> "day", status |-> "ok", key |-> "", prior |-> 0,
                   body |-> BodyNone]
  /\ UNCHANGED <<rateStore, writeQueue, isWriting, heartbeats, totalsHourly, nextHourly,
                 drainOnPush, nextId, lastAck, failed, lastApplied, sweptSince, windows,
                 totalsDaily, totalsWeekly, nextDaily, nextWeekly>>

\* ------------------------------------------------------------------ spec
\* The keys a task can carry: the escaped id of a request body, or its digest
Uuids ==
  LET ids == {Escape(b.uuid.s) : b \in {c \in Bodies \cup BodiesChecked : c.uuid.t = "string"}}
  IN ids \cup {Sha512(u) : u \in ids}
NoAck == [id |-> 0, task |-> <<>>]

Start(drain) ==
  /\ now = 0
  /\ rateStore = [k \in Keys |-> NoEntry]
  /\ writeQueue = <<>>
  /\ isWriting = FALSE
  /\ heartbeats = {}
  /\ totalsHourly = {}
  /\ nextHourly = NextHour(0)
  /\ drainOnPush = drain
  /\ lastEvent = [op |-> "start", status |-> "ok", key |-> "", prior |-> 0,
                   body |-> BodyNone]
  /\ nextId = 0
  /\ lastAck = [u \in Uuids |-> NoAck]
  /\ failed = {}
  /\ lastApplied = 0
  /\ sweptSince = {}
  /\ windows = {}
  /\ totalsDaily = {}
  /\ totalsWeekly = {}
  /\ nextDaily = NextDay(0)
  /\ nextWeekly = NextSunday(0, WeekMs)

\* The bounds of a run: the tasks pushed, and the requests counted in one window
Bounded(maxEnq, maxCount) ==
  /\ nextId' <= maxEnq
  /\ \A k \in Keys : rateStore'[k].current <= maxCount

\* The server with the consumer on its timer and the hourly job
Init == Start(FALSE)

Next ==
  \/ \E src \in Sources, body \in Bodies : Heartbeat(src, body) /\ Bounded(MaxEnq, RateMax + 1)
  \/ ProcessQueue
  \/ HourlyJob
  \/ Tick

Spec == Init /\ [][Next]_vars

\* Both servers, sent valid bodies only: the one above, and the one whose handler
\* also calls processQueue() after its push and that has no aggregation job
BodiesValid == {BodyA1, BodyA2, BodyB}

InitQueue == Start(FALSE) \/ Start(TRUE)

HourlyJobIfScheduled == ~drainOnPush /\ HourlyJob

NextQueue ==
  \/ \E src \in Sources, body \in BodiesValid :
       Heartbeat(src, body) /\ Bounded(MaxEnq + 1, RateMax + 1)
  \/ ProcessQueue
  \/ HourlyJobIfScheduled
  \/ Tick

SpecQueue == InitQueue /\ [][NextQueue]_vars

\* The rate limiter run past its ceiling and its ban threshold
BodiesRate == {BodyA1, BodyNoUuid}

NextRate ==
  \/ \E src \in Sources, body \in BodiesRate :
       Heartbeat(src, body) /\ Bounded(RateMax + 1, RateMax + RateBan + 2)
  \/ ProcessQueue
  \/ HourlyJob
  \/ Tick

SpecRate == Init /\ [][NextRate]_vars

\* The validation of the handler, sent every kind of body within one window
\* of the limiter
NextChecked ==
  \/ \E src \in Sources, body \in BodiesChecked :
       Heartbeat(src, body) /\ Bounded(MaxEnq, RateMax)
  \/ ProcessQueue

SpecChecked == Init /\ [][NextChecked]_vars

\* The server with the body of its hourly job run at any time, so that it can
\* run again for the window of the run before
HourlyRerun == HourlyCallback /\ UNCHANGED <<nextHourly, nextDaily, nextWeekly>>

BodiesRerun == {BodyA1, BodyB}

NextRerun ==
  \/ \E src \in Sources, body \in BodiesRerun :
       Heartbeat(src, body) /\ Bounded(MaxEnq, RateMax)
  \/ ProcessQueue
  \/ HourlyRerun
  \/ Tick

SpecRerun == Init /\ [][NextRerun]_vars

\* One client's heartbeats under the bodies of the hourly and the daily job, each
\* run at any time
DailyRerun ==
  /\ Cardinality(totalsDaily) < MaxDaily
  /\ DailyCallback
  /\ UNCHANGED <<nextHourly, nextDaily, nextWeekly>>

NextSources ==
  \/ \E src \in Sources : Heartbeat(src, BodyA1) /\ Bounded(MaxSent, RateMax)
  \/ ProcessQueue
  \/ HourlyRerun
  \/ DailyRerun
  \/ Tick

SpecSources == Init /\ [][NextSources]_vars

\* The limiter under requests that come through a proxy or not: four sources on
\* two keys, the transport address of each the key of another
SrcClient == Src("", "10.0.0.1", "8.8.8.8", "192.168.0.9")
SrcForwarded == Src("", "", "192.168.0.9", "172.16.0.1")
SourcesKeyed == {SrcProxy, SrcDirect, SrcClient, SrcForwarded}

NextKeys ==
  \/ \E src \in SourcesKeyed, body \in BodiesRate :
       Heartbeat(src, body) /\ Bounded(MaxSent, RateMax + 1)
  \/ ProcessQueue
  \/ Tick

SpecKeys == Init /\ [][NextKeys]_vars

\* The handler and the consumer under a body whose version is within the
\* handler's limit and holds characters validator.escape replaces
BodyEscaped ==
  Body(Str(<<"b">>), Str(Rep("<", (inputCharLimit \div 4) + 1)), Str(<<"C">>), Str(<<"W">>))

BodiesEscaped == {BodyA1, BodyEscaped}

NextEscaped ==
  \/ \E src \in Sources, body \in BodiesEscaped :
       Heartbeat(src, body) /\ Bounded(MaxEnq, RateMax)
  \/ ProcessQueue
  \/ Tick

SpecEscaped == Init /\ [][NextEscaped]_vars

\* The handler and the consumer with the consumer's timer scheduled fairly:
\* setInterval(processQueue, 10) calls processQueue again and again, so a call
\* that has a task to take is not put off for ever
NextLive ==
  \/ \E src \in Sources, body \in BodiesRerun :
       Heartbeat(src, body) /\ Bounded(MaxEnq, RateMax)
  \/ ProcessQueue
  \/ Tick

SpecLive == Init /\ [][NextLive]_vars /\ WF_vars(ProcessQueue)

\* The server that may be restarted, its firings otherwise on time
NextRestart ==
  \/ \E src \in Sources, body \in BodiesRerun :
       Heartbeat(src, body) /\ Bounded(MaxEnq, RateMax)
  \/ ProcessQueue
  \/ HourlyJob
  \/ OnTimeTick
  \/ Restart
  \/ HourlyCrash

SpecRestart == Init /\ [][NextRestart]_vars

\* The server whose hourly job is on a timer chain and whose store may fail in
\* an aggregation; requests are served while the process runs
NextTimer ==
  \/ \E src \in Sources : Up /\ Heartbeat(src, BodyA1) /\ Bounded(MaxSent, RateMax)
  \/ Up /\ ProcessQueue
  \/ HourlyTimer
  \/ TimerTick
  \/ Restart

SpecTimer == Init /\ [][NextTimer]_vars

\* The server whose daily and weekly jobs run (its hourly job is switched off)
\* over the hourly totals an earlier run of the process left in the database
\* file; the process starts at a midnight, on any day of the week
StoredTask(body, t) == HandleHeartbeat(body, t, FALSE).task

StoredHourly ==
  {{},
   {TotalsRow(<<StoredTask(BodyA2, 0 - 1)>>, 0 - HourMs, 0)},
   {TotalsRow(<<StoredTask(BodyA1, 0 - 1), StoredTask(BodyB, 0 - 1)>>, 0 - HourMs, 0),
    TotalsRow(<<StoredTask(BodyB, 0 - HourMs)>>, 0 - 2 * HourMs, 0 - HourMs)}}

InitRollup ==
  /\ now = 0
  /\ rateStore = [k \in Keys |-> NoEntry]
  /\ writeQueue = <<>>
  /\ isWriting = FALSE
  /\ heartbeats = {}
  /\ totalsHourly \in StoredHourly
  /\ nextHourly = NextHour(0)
  /\ drainOnPush = FALSE
  /\ lastEvent = [op |-> "start", status |-> "ok", key |-> "", prior |-> 0,
                   body |-> BodyNone]
  /\ nextId = 0
  /\ lastAck = [u \in Uuids |-> NoAck]
  /\ failed = {}
  /\ lastApplied = 0
  /\ sweptSince = {}
  /\ windows = {}
  /\ totalsDaily = {}
  /\ totalsWeekly = {}
  /\ nextDaily = NextDay(0)
  /\ nextWeekly \in {NextSunday(0, d * DayMs) : d \in 1..7}

NextRollup ==
  \/ DailyJob
  \/ WeeklyJob
  \/ DayPasses
  \/ Restart

SpecRollup == InitRollup /\ [][NextRollup]_vars

\* The bodies of the hourly, the daily and the weekly job, each run at any time
\* over the heartbeats an earlier run of the process left in the database file
WeeklyRerun ==
  /\ Cardinality(totalsWeekly) < MaxWeekly
  /\ WeeklyCallback
  /\ UNCHANGED <<nextHourly, nextDaily, nextWeekly>>

StoredHeartbeats ==
  {{StoredTask(BodyA1, 0 - 1)},
   {StoredTask(BodyA1, 0 - 1), StoredTask(BodyB, 0)}}

InitLevels ==
  /\ now = 0
  /\ rateStore = [k \in Keys |-> NoEntry]
  /\ writeQueue = <<>>
  /\ isWriting = FALSE
  /\ heartbeats \in StoredHeartbeats
  /\ totalsHourly = {}
  /\ nextHourly = NextHour(0)
  /\ drainOnPush = FALSE
  /\ lastEvent = [op |-> "start", status |-> "ok", key |-> "", prior |-> 0,
                   body |-> BodyNone]
  /\ nextId = 0
  /\ lastAck = [u \in Uuids |-> NoAck]
  /\ failed = {}
  /\ lastApplied = 0
  /\ sweptSince = {}
  /\ windows = {}
  /\ totalsDaily = {}
  /\ totalsWeekly = {}
  /\ nextDaily = NextDay(0)
  /\ nextWeekly = NextSunday(0, WeekMs)

NextLevels ==
  \/ HourlyRerun
  \/ DailyRerun
  \/ WeeklyRerun
  \/ Tick

SpecLevels == InitLevels /\ [][NextLevels]_vars

\* ================================================================ claims
QueueIds == {writeQueue[i].id : i \in DOMAIN writeQueue}
QueueUuids == {writeQueue[i].task.uuid : i \in DOMAIN writeQueue}
RowsOf(u) == {r \in heartbeats : r.uuid = u}

\* C1: once the hourly job for a window W = [startTime, endTime) has completed,
\* no row of the heartbeats table has its lastSeen in W, in any later state.
\* It fails: a record stamped inside W that waits in the write queue while the
\* job sweeps is written after the sweep.
C1_SweptWindowStaysEmpty ==
  \A w \in windows : \A r \in heartbeats : ~InWindow(r, w[1], w[2])

\* C2: a row is deleted no later than the first hourly firing that follows its
\* lastSeen: after a firing at time endTime no row older than endTime is left.
\* It fails: a firing that runs late sweeps only [Date.now() - 1h, Date.now())
\* and leaves the rows stamped before that window.
C2_NoRowOutlivesAFiring ==
  \A w \in windows : \A r \in heartbeats : r.lastSeen >= w[2]

\* C3: last write wins. When every task pushed for a uuid has left the queue,
\* the write of the last one did not fail and no sweep deleted the uuid's row
\* since, the table holds exactly one row for the uuid, equal to the last
\* task pushed for it.
C3_LastWriteWins ==
  \A u \in Uuids :
    (/\ lastAck[u].id # 0
     /\ u \notin QueueUuids
     /\ lastAck[u].id \notin failed
     /\ u \notin sweptSince)
    => RowsOf(u) = {lastAck[u].task}

\* C3 happens: two heartbeats of uuid "a" were pushed and both written, the
\* second with another version, and the row is the second one
C3_SecondHeartbeatStored ==
  /\ lastAck[<<"a">>].id = 2
  /\ nextId = 2
  /\ lastAck[<<"b">>].id = 0
  /\ writeQueue = <<>>
  /\ failed = {}
  /\ sweptSince = {}
  /\ lastAck[<<"a">>].task.version = Str(<<"&", "l", "t", ";", "2">>)
  /\ lastAck[<<"a">>].task.lastSeen = 1
  /\ heartbeats = {lastAck[<<"a">>].task}

\* C4: tasks reach statement.run in the order they were pushed, in both
\* servers: the tasks waiting are in push order and every one of them was
\* pushed after the task statement.run was last called on.
C4_AppliedInPushOrder ==
  /\ \A i, j \in DOMAIN writeQueue : i < j => writeQueue[i].id < writeQueue[j].id
  /\ \A i \in DOMAIN writeQueue : writeQueue[i].id > lastApplied

\* C4 happens: the timer's processQueue has just written the second task
\* pushed while the third was waiting behind it
C4_SecondAppliedBeforeThird ==
  /\ ~drainOnPush
  /\ lastEvent.op = "processQueue"
  /\ lastApplied = 2
  /\ nextId = 3
  /\ QueueIds = {3}

\* C5: no two upserts are in progress at once. Every callback starts and ends
\* with isWriting = false, so no processQueue call starts while another is
\* between its shift and the end of its write, and one call takes at most
\* one task from the queue.
C5_OneUpsertAtATime ==
  [][/\ ~isWriting
     /\ ~isWriting'
     /\ Len(writeQueue') >= Len(writeQueue) - 1
     /\ Cardinality(heartbeats' \ heartbeats) <= 1]_vars

\* C5 happens: a processQueue call has written one task and left another waiting
C5_WroteOneLeftOne ==
  /\ lastEvent.op = "processQueue"
  /\ lastEvent.status = "ok"
  /\ Len(writeQueue) >= 1
  /\ heartbeats # {}

\* A body the handler validates
ValidBody(body) ==
  /\ body.uuid.t = "string" /\ body.uuid.s # <<>> /\ Len(body.uuid.s) <= inputCharLimit
  /\ \A f \in {"version", "browser", "os"} :
       body[f].t = "string" /\ Len(body[f].s) <= inputCharLimit

\* C6: a request the limiter admits and whose body is valid is answered
\* {status: 'ok'} and appends exactly one task at the tail of the queue; no
\* request changes the heartbeats table.
C6_AcceptedRequestEnqueuesOnce ==
  [][\A src \in Sources, body \in Bodies :
       Heartbeat(src, body) =>
         /\ heartbeats' = heartbeats
         /\ (ValidBody(body) /\ rateStore'[keyGenerator(src)].current <= RateMax) =>
              /\ lastEvent'.status = "ok"
              /\ Len(writeQueue') = Len(writeQueue) + 1
              /\ SubSeq(writeQueue', 1, Len(writeQueue)) = writeQueue
              /\ writeQueue'[Len(writeQueue')].task.uuid = Escape(body.uuid.s)
              /\ writeQueue'[Len(writeQueue')].task.lastSeen = now]_vars

\* C6 happens: a request was answered ok while a task was already waiting, and
\* nothing has been written
C6_AcceptedBehindAWaitingTask ==
  /\ lastEvent.op = "heartbeat"
  /\ lastEvent.status = "ok"
  /\ Len(writeQueue) = 2
  /\ heartbeats = {}

\* C7: a task whose write throws is dropped. The failing call leaves the table
\* as it was, removes the task from the head of the queue and resets
\* isWriting, so that a later call takes the next task; a failed task is
\* never in the queue again.
C7_FailedWriteIsDropped ==
  [][/\ (lastEvent'.op = "processQueue" /\ lastEvent'.status = "error") =>
          /\ heartbeats' = heartbeats
          /\ writeQueue' = Tail(writeQueue)
          /\ ~isWriting'
          /\ failed' = failed \cup {Head(writeQueue).id}
     /\ QueueIds' \cap failed' = {}
     /\ (lastEvent'.op = "processQueue" /\ lastEvent'.status = "ok") =>
          lastApplied' \notin failed']_vars

\* C7 happens: after the write of task 1 threw, a later call wrote task 2
C7_NextTaskWrittenAfterFailure ==
  /\ 1 \in failed
  /\ lastApplied = 2
  /\ lastEvent.op = "processQueue"
  /\ lastEvent.status = "ok"
  /\ heartbeats # {}

\* C8: a request the rate limiter rejects (its count is over the ceiling) is
\* answered 429 or 403 and changes neither the queue nor the heartbeats table,
\* and the queue grows only by a request the limiter admitted.
C8_RejectedRequestChangesNothing ==
  [][/\ (/\ lastEvent'.op = "heartbeat"
         /\ rateStore'[lastEvent'.key].current > RateMax) =>
          /\ lastEvent'.status \in {"429", "403"}
          /\ UNCHANGED <<writeQueue, heartbeats, nextId>>
     /\ Len(writeQueue') > Len(writeQueue) =>
          /\ lastEvent'.op = "heartbeat"
          /\ rateStore'[lastEvent'.key].current <= RateMax]_vars

\* C8 happens: a banned request was answered 403 while a task was waiting
C8_BannedWhileQueueHoldsATask ==
  /\ lastEvent.op = "heartbeat"
  /\ lastEvent.status = "403"
  /\ Len(writeQueue) >= 1

\* C9 as the specification words it: the third valid heartbeat of one
\* 30-minute window is rejected. (At time 0 with three requests counted and
\* three tasks pushed, all three requests were valid and in one window.)
C9_ThirdHeartbeatRejected ==
  (/\ lastEvent.op = "heartbeat"
   /\ now = 0
   /\ rateStore[lastEvent.key].current = 3
   /\ nextId = 3)
  => lastEvent.status # "ok"

\* C9: of the valid heartbeats one key sends within one window the first three
\* are answered ok and the fourth is answered 429; a valid heartbeat sent once
\* the window that began with the key's first request has elapsed is answered
\* ok again.
C9_ThreeAcceptedFourthRejected ==
  [][\A src \in Sources, body \in BodiesRate :
       (Heartbeat(src, body) /\ ValidBody(body)) =>
         LET entry == rateStore[keyGenerator(src)]
             count == rateStore'[keyGenerator(src)].current
         IN /\ count \in 1..3 => lastEvent'.status = "ok"
            /\ count = 4 => lastEvent'.status = "429"
            /\ (entry.current > 0 /\ now >= entry.iterationStartMs + timeWindow) =>
                 (count = 1 /\ lastEvent'.status = "ok")]_vars

\* C9 happens: after four tasks were pushed, i.e. after a fourth valid
\* heartbeat was accepted in a later window than the first three
C9_AcceptedAgainAfterTheWindow ==
  /\ lastEvent.op = "heartbeat"
  /\ lastEvent.status = "ok"
  /\ nextId = 4
  /\ rateStore[lastEvent.key].current = 1
  /\ rateStore[lastEvent.key].iterationStartMs = now
  /\ now = timeWindow

\* C10: a key's requests are counted per window. A request later than the
\* third of its window is rejected and no earlier one is; the first request
\* after the window has elapsed counts as 1 and is admitted.
C10_CountedPerWindow ==
  [][lastEvent'.op = "heartbeat" =>
       LET k == lastEvent'.key
           old == rateStore[k]
           elapsed == old.current = 0 \/ now - old.iterationStartMs >= timeWindow
           rejected == lastEvent'.status \in {"429", "403"}
       IN /\ rateStore'[k].current = IF elapsed THEN 1 ELSE old.current + 1
          /\ rateStore'[k].iterationStartMs = IF elapsed THEN now ELSE old.iterationStartMs
          /\ rejected <=> rateStore'[k].current > RateMax
          /\ \A other \in Keys \ {k} : rateStore'[other] = rateStore[other]]_vars

\* C10 happens: with three tasks pushed in the key's first window, a request
\* sent when that window has elapsed is counted as the first of a new window
\* and reaches the handler, which answers 400 to its body
C10_AdmittedInANewWindow ==
  /\ lastEvent.op = "heartbeat"
  /\ lastEvent.status = "400"
  /\ nextId = RateMax
  /\ rateStore[lastEvent.key].current = 1
  /\ rateStore[lastEvent.key].iterationStartMs = now
  /\ now = timeWindow

HandlerRan == lastEvent'.op = "heartbeat" /\ lastEvent'.status \notin {"429", "403"}

\* C13: a request whose uuid is missing (absent or null), is not a string, or
\* is a string longer than inputCharLimit is answered 400 and changes neither
\* the queue nor the heartbeats table.
C13_BadUuidRejected ==
  [][(/\ HandlerRan
      /\ \/ lastEvent'.body.uuid.t # "string"
         \/ Len(lastEvent'.body.uuid.s) > inputCharLimit) =>
       /\ lastEvent'.status = "400"
       /\ UNCHANGED <<writeQueue, heartbeats, nextId>>]_vars

\* C13 happens: a uuid of 101 characters was answered 400 while a task was waiting
C13_Uuid101Rejected ==
  /\ lastEvent.op = "heartbeat"
  /\ lastEvent.status = "400"
  /\ lastEvent.body.uuid.t = "string"
  /\ Len(lastEvent.body.uuid.s) = inputCharLimit + 1
  /\ Len(writeQueue) = 1

\* C14: version, browser and os are optional. A request with a valid uuid in
\* which each of them is absent or a valid string is answered ok and pushes
\* one task, with null for every absent field.
\* It fails: the handler reads .length of an absent field and throws.
C14_AbsentFieldsAccepted ==
  [][(/\ HandlerRan
      /\ lastEvent'.body.uuid.t = "string"
      /\ lastEvent'.body.uuid.s # <<>>
      /\ Len(lastEvent'.body.uuid.s) <= inputCharLimit
      /\ \A f \in {"version", "browser", "os"} :
           \/ lastEvent'.body[f].t = "undefined"
           \/ /\ lastEvent'.body[f].t = "string"
              /\ Len(lastEvent'.body[f].s) <= inputCharLimit) =>
       /\ lastEvent'.status = "ok"
       /\ Len(writeQueue') = Len(writeQueue) + 1
       /\ \A f \in {"version", "browser", "os"} :
            lastEvent'.body[f].t = "undefined" =>
              writeQueue'[Len(writeQueue')].task[f] = Null]_vars

\* C15: a request in which version, browser or os is present but is a number,
\* a boolean, an array or an object, or is a string longer than
\* inputCharLimit, is answered 400 and pushes nothing.
\* It fails: a falsy value that is not a string (0, false) passes every check
\* and is pushed as null.
C15_WrongOptionalFieldRejected ==
  [][(/\ HandlerRan
      /\ lastEvent'.body.uuid.t = "string"
      /\ lastEvent'.body.uuid.s # <<>>
      /\ Len(lastEvent'.body.uuid.s) <= inputCharLimit
      /\ \E f \in {"version", "browser", "os"} :
           \/ lastEvent'.body[f].t \in {"number", "boolean", "object"}
           \/ /\ lastEvent'.body[f].t = "string"
              /\ Len(lastEvent'.body[f].s) > inputCharLimit) =>
       /\ lastEvent'.status = "400"
       /\ UNCHANGED <<writeQueue, nextId>>]_vars

\* The <<label, count>> members read back from the JSON text of a totals column,
\* from place i on; inKey says that place is inside a quoted label, key and
\* count are what was read of the member so far (every stored count is positive)
RECURSIVE JsonParse(_, _, _, _, _)
JsonParse(text, i, inKey, key, count) ==
  CASE i > Len(text) -> <<>>
    [] i <= Len(text) /\ inKey /\ text[i] = "\\" ->
         JsonParse(text, i + 2, TRUE, Append(key, text[i + 1]), 0)
    [] i <= Len(text) /\ inKey /\ text[i] = "\"" -> JsonParse(text, i + 1, FALSE, key, 0)
    [] i <= Len(text) /\ inKey /\ text[i] \notin {"\\", "\""} ->
         JsonParse(text, i + 1, TRUE, Append(key, text[i]), 0)
    [] i <= Len(text) /\ ~inKey /\ text[i] = "\"" -> JsonParse(text, i + 1, TRUE, <<>>, 0)
    [] i <= Len(text) /\ ~inKey /\ (\E d \in DOMAIN DecimalDigits : DecimalDigits[d] = text[i]) ->
         JsonParse(text, i + 1, FALSE, key, 10 * count + DigitValue(text[i]))
    [] i <= Len(text) /\ ~inKey /\ text[i] \in {",", "}"} ->
         (IF count > 0 THEN << <<key, count>> >> ELSE <<>>)
         \o JsonParse(text, i + 1, FALSE, <<>>, 0)
    [] OTHER -> JsonParse(text, i + 1, FALSE, key, count)

TotalsOf(column) == JsonParse(column.s, 1, FALSE, <<>>, 0)

Columns == {"version", "browser", "os"}

\* The heartbeat rows of the window an hourly run at the present time reads
HourRows == {r \in heartbeats : now - HourMs <= r.lastSeen /\ r.lastSeen < now}

\* The map of a column says, for each label, how many of the rows have it
CountsLabels(column, rows, col) ==
  LET totals == TotalsOf(column)
  IN /\ \A i, j \in DOMAIN totals : totals[i][1] = totals[j][1] => i = j
     /\ \A i \in DOMAIN totals :
          totals[i][2] = Cardinality({r \in rows : r[col] = Str(totals[i][1])})
     /\ \A r \in rows : r[col].t = "string" => \E i \in DOMAIN totals : totals[i][1] = r[col].s

RECURSIVE SumCounts(_)
SumCounts(totals) ==
  IF totals = <<>> THEN 0 ELSE totals[1][2] + SumCounts(Tail(totals))

RollupRows == totalsHourly \cup totalsDaily \cup totalsWeekly

C20_WindowsOnTheHour ==
  /\ \A w \in windows : w[1] % HourMs = 0 /\ w[2] % HourMs = 0
  /\ \A t \in totalsHourly : t.start % HourMs = 0

\* A run that adds the row keyed start to a table holding cap rows leaves cap
\* rows, the new one among them, and every row it deleted is older than every
\* row it kept
RingTurns(table, after, start, cap) ==
  (Cardinality(table) = cap /\ \A t \in table : t.start # start) =>
    /\ Cardinality(after) = cap
    /\ \E t \in after : t.start = start
    /\ after \subseteq table \cup {t \in after : t.start = start}
    /\ \A t \in after, q \in table \ after : q.start < t.start

C18_SecondRunChangesNothing ==
  [][(lastEvent.op = "hourly" /\ lastEvent'.op = "hourly") =>
       totalsHourly' = totalsHourly]_vars

\* The row lies in the window of a completed hourly run
Aggregated(r, runs) == \E w \in runs : w[1] <= r.lastSeen /\ r.lastSeen < w[2]

\* C21: a missed firing is made up for: when the hourly job runs, every heartbeat
\* row stamped before that run, the rows of a window whose firing a restart
\* skipped among them, has been in the window of an hourly run
C21_MissedWindowAggregated ==
  [][lastEvent'.op = "hourly" =>
       \A r \in heartbeats : r.lastSeen < now => Aggregated(r, windows')]_vars

\* C22: the windows of the firings of the hourly job tile the time the process
\* has run: no two of them overlap, and each starts where another ended or at
\* the start of the process, also when a firing runs late, so that no heartbeat
\* row is counted twice and none is left out of every window
C22_WindowsTile ==
  \A w \in windows :
    /\ w[1] <= 0 \/ \E v \in windows : v[2] = w[1]
    /\ \A v \in windows : v # w => (v[2] <= w[1] \/ w[2] <= v[1])

\* C23: the rows of the totals tables outlive a restart: the set-up the process
\* runs when it starts leaves every row of the hourly, daily and weekly totals
\* in place
C23_TotalsOutliveRestart ==
  [][lastEvent'.op = "restart" =>
       /\ totalsHourly' = totalsHourly
       /\ totalsDaily' = totalsDaily
       /\ totalsWeekly' = totalsWeekly]_vars

MondayMidnight(t) == (t - nextWeekly) % WeekMs = DayMs

\* C29: the weekly job fires at Monday 00:00, and the next weekly target it is
\* given is the first Monday 00:00 after the present time
C29_WeeklyJobOnMonday ==
  [][lastEvent'.op = "weekly" =>
       /\ MondayMidnight(now)
       /\ MondayMidnight(nextWeekly') /\ nextWeekly' > now /\ nextWeekly' <= now + WeekMs]_vars

\* C30: the totals row is written before the source rows are deleted: when the
\* process dies in an hourly run, after any number of its statements, heartbeat
\* rows have left the table only if the totals row of the window is written and
\* counts them, and when no totals row was written or changed the heartbeats
\* table is as it was before the run
C30_SweptOnlyWhenCounted ==
  [][lastEvent'.op = "crash" =>
       /\ heartbeats' # heartbeats =>
            \E t \in totalsHourly' :
              /\ t.start = now - HourMs
              /\ t.onlineUsers = Cardinality(heartbeats \ heartbeats')
       /\ totalsHourly' = totalsHourly => heartbeats' = heartbeats]_vars

\* The process died between the upsert and the sweep: the row of the window
\* counts a client whose heartbeat is still in the table
C30_DiedBetweenUpsertAndSweep ==
  /\ lastEvent.op = "crash"
  /\ \E t \in totalsHourly :
       /\ t.onlineUsers > 0
       /\ t.onlineUsers =
            Cardinality({r \in heartbeats : t.start <= r.lastSeen /\ r.lastSeen < t.lastSeen})

\* C26: a store failure in an aggregation run does not end the process and does
\* not stop later work: after an hourly run in which a statement threw, the
\* process runs and the next firing of the job is pending
C26_FailedRunStopsNothing ==
  [][(lastEvent'.op = "hourly" /\ lastEvent'.status = "error") =>
       nextHourly' # NoTimer /\ nextHourly' > now]_vars

\* C28: every boundary starts its job once: after a firing the next target is
\* the boundary that follows the one just fired, not that one again and not a
\* later one, whether the callback ran before or after its target
C28_NextTargetIsTheNextBoundary ==
  [][(lastEvent'.op = "hourly" /\ lastEvent'.status = "ok") =>
       nextHourly' = nextHourly + HourMs]_vars

\* The key a request is to be counted under: the first header present among x-real-ip,
\* x-client-ip and x-forwarded-for, and the transport address when none is
ProxyHeaders(src) == <<src.xRealIp, src.xClientIp, src.xForwardedFor>>
HeadersPresent(src) == {i \in 1..3 : ProxyHeaders(src)[i] # ""}
ClaimedKey(src) ==
  IF HeadersPresent(src) = {} THEN src.ip
  ELSE ProxyHeaders(src)[CHOOSE i \in HeadersPresent(src) :
                           \A j \in HeadersPresent(src) : i <= j]

\* C27: a request is counted under the proxy header it carries (x-real-ip, else
\* x-client-ip, else x-forwarded-for) and under its transport address only when
\* it carries none: the request adds to the counter of that key and leaves the
\* counter of every other key as it was, so two requests share a counter exactly
\* when their keys are equal
C27_CountedUnderTheProxyKey ==
  [][\A src \in SourcesKeyed, body \in BodiesRate :
       Heartbeat(src, body) =>
         /\ lastEvent'.key = ClaimedKey(src)
         /\ rateStore'[ClaimedKey(src)].current \in {1, rateStore[ClaimedKey(src)].current + 1}
         /\ \A k \in Keys : k # ClaimedKey(src) => rateStore'[k] = rateStore[k]]_vars

\* Requests were counted under both keys, twice each
C27_BothKeysCounted ==
  /\ lastEvent.op = "heartbeat"
  /\ lastEvent.key = keyGenerator(SrcClient)
  /\ \A k \in Keys : rateStore[k].current = 2

C32_LastSeenNeverDecreases ==
  [][/\ \A r \in heartbeats : \A q \in heartbeats' :
          r.uuid = q.uuid => q.lastSeen >= r.lastSeen
     /\ \A i, j \in DOMAIN writeQueue' :
          i < j => writeQueue'[i].task.lastSeen <= writeQueue'[j].task.lastSeen
     /\ \A i \in DOMAIN writeQueue' : \A r \in heartbeats' :
          r.uuid = writeQueue'[i].task.uuid => writeQueue'[i].task.lastSeen >= r.lastSeen]_vars

\* The second heartbeat of uuid "a", sent later than the first, has just been
\* written over the row of the first
C32_LaterHeartbeatOverwrote ==
  /\ ~drainOnPush
  /\ lastEvent.op = "processQueue"
  /\ lastEvent.status = "ok"
  /\ lastApplied = 2
  /\ failed = {}
  /\ sweptSince = {}
  /\ lastAck[<<"b">>].id = 0
  /\ \E r \in heartbeats : r.uuid = <<"a">> /\ r.lastSeen = 2 /\ r.version = Str(<<"1">>)

\* C33: the heartbeats table holds at most one row for a uuid in every state, so
\* the onlineUsers of the row an hourly run writes is the number of distinct
\* uuids with a row in its window: a client counts once however many heartbeats
\* it sent in the window
C33_OneRowPerClient ==
  [][/\ \A r, q \in heartbeats' : r.uuid = q.uuid => r = q
     /\ lastEvent'.op = "hourly" =>
          \A t \in totalsHourly' :
            t.start = now - HourMs => t.onlineUsers = Cardinality({r.uuid : r \in HourRows})]_vars

\* Client "a" sent two heartbeats in the first hour, both were written, and the
\* hourly run counted one user
C33_TwoHeartbeatsOneUser ==
  /\ ~drainOnPush
  /\ lastEvent.op = "hourly"
  /\ windows = {<<0, HourMs>>}
  /\ nextId = 2
  /\ lastAck[<<"a">>].id = 2
  /\ lastAck[<<"b">>].id = 0
  /\ lastApplied = 2
  /\ failed = {}
  /\ heartbeats = {}
  /\ \E t \in totalsHourly : t.start = 0 /\ t.onlineUsers = 1

\* C34: an hourly run reads, writes its row and sweeps in one callback, with no
\* call of processQueue in between: the rows the sweep deletes are exactly the
\* rows of the window as the run found them, their number is the onlineUsers of
\* the row the run writes, no row is added by the run, and the tasks waiting in
\* the queue wait on
C34_SweptRowsAreTheCountedRows ==
  [][lastEvent'.op = "hourly" =>
       /\ heartbeats \ heartbeats' = HourRows
       /\ heartbeats' \subseteq heartbeats
       /\ writeQueue' = writeQueue
       /\ \A t \in totalsHourly' :
            t.start = now - HourMs => t.onlineUsers = Cardinality(heartbeats \ heartbeats')]_vars

\* An hourly run has counted and swept the row of the first task while the
\* second task waited in the queue
C34_TaskWaitedThroughTheRun ==
  /\ lastEvent.op = "hourly"
  /\ lastApplied = 1
  /\ failed = {}
  /\ QueueIds = {2}
  /\ heartbeats = {}
  /\ sweptSince # {}
  /\ \E t \in totalsHourly : t.start = now - HourMs /\ t.onlineUsers = 1

\* C35: the rolling window never deletes a row its coarser job has yet to read:
\* a row a daily run evicts from the daily totals (cap 7) does not fall in the
\* window of the weekly firing that is due or comes next.
\* It fails: at a Sunday midnight the daily job, scheduled first, adds the
\* eighth row and evicts the row written seven days before, which the weekly
\* job of the same midnight has in its window.
C35_EvictedRowsWereAggregated ==
  [][lastEvent'.op = "daily" =>
       \A r \in totalsDaily :
         (\A q \in totalsDaily' : q.start # r.start) =>
           ~InWindow(r, nextWeekly - WeekMs, nextWeekly)]_vars

\* C36: every task on the write queue passes the CHECK constraints of the
\* heartbeats table: its uuid, version, browser and os, as escaped, are at most
\* 100 characters each.
\* It fails: the handler compares the length before validator.escape, which
\* turns a version of 26 "<" into 104 characters.
C36_QueuedTasksPassTheCheck ==
  \A i \in DOMAIN writeQueue : CheckOk(writeQueue[i].task)

\* C37: with the consumer's timer scheduled fairly, every task pushed on the
\* queue leaves it (written or dropped), and when no more tasks are pushed the
\* queue becomes empty and stays empty; a write that fails does not stop the
\* consumer
C37_EveryTaskLeavesTheQueue ==
  /\ \A id \in 1..(MaxEnq + 1) : (id \in QueueIds) ~> (id \notin QueueIds)
  /\ <>[][nextId' = nextId]_vars => <>[](writeQueue = <<>>)

\* The write of the first task failed and the consumer went on to take the
\* second: the queue is empty
C37_DrainedAfterAFailedWrite ==
  /\ failed = {1}
  /\ lastApplied = 2
  /\ nextId = 2
  /\ writeQueue = <<>>
  /\ ~isWriting

\* The row a coarser job writes over the source rows of its window
CountsSourceRows(t, rows, cap) ==
  /\ t.onlineUsers = Cardinality(rows)
  /\ t.onlineUsers <= cap
  /\ \A col \in Columns : CountsLabels(t[col], rows, col)

C39_TickTakesTheHead ==
  [][/\ ~isWriting'
     /\ lastEvent'.op = "processQueue" =>
          IF writeQueue = <<>>
          THEN /\ lastEvent'.status = "idle"
               /\ UNCHANGED <<writeQueue, heartbeats, isWriting, failed, lastApplied>>
          ELSE /\ writeQueue' = Tail(writeQueue)
               /\ lastApplied' = Head(writeQueue).id
               /\ lastEvent'.status \in {"ok", "error"}]_vars

\* The write of the first task has just thrown: the second task is still
\* waiting and isWriting is false
C39_FlagResetAfterAFailedWrite ==
  /\ lastEvent.op = "processQueue"
  /\ lastEvent.status = "error"
  /\ failed = {1}
  /\ QueueIds = {2}
  /\ ~isWriting

====
